---- MODULE Spec2Model ----
(***************************************************************************)
(* A model of the ingestion-and-retrieval pipeline of the MCP Q&A chatbot: *)
(* the chunker and document processor (utils/document_processor.py), the   *)
(* vector index client (utils/vector_store.py), the question-answering     *)
(* pipeline (utils/rag_pipeline.py) and the two ingestion orchestrators    *)
(* (app/main.py ingest_documents, setup_pipeline.py).                      *)
(*                                                                         *)
(* Texts are sequences of one-character strings.  Positions keep Python's  *)
(* 0-based convention; Slice and RFind follow Python's index rules,        *)
(* negative indexes included.  The embedding service, the vector index     *)
(* service and the generation service are collaborators: each call to one  *)
(* either raises or answers as its interface promises.                     *)
(***************************************************************************)
EXTENDS Integers, Sequences, FiniteSets, TLC

VARIABLES
    \* DocumentProcessor.chunk_text: arguments, locals, position
    text, chunk_size, overlap, start, chunks, iters, cpc,
    \* the windows <<start, end>> the chunk_text loop has cut, in order
    windows,
    \* DocumentProcessor.process_documents: argument, result, position
    documents, processed_chunks, ppc,
    \* the collaborator's index named index_name: its status and its entries
    remoteStatus, remoteEntries,
    \* PineconeVectorStore instances: self.index is set; position in the
    \* method being run; what get_index_stats last returned
    index, vpc, stats,
    \* an ingestion run: which orchestrator, its request, its position
    variant, request, ipc,
    \* DOCUMENTATION_FILE, and the documents a crawl finds
    file, corpus,
    \* create_embeddings locals: embeddings, loop offset i
    embeddings, ei,
    \* upsert_documents loop offset i
    ui,
    \* ingest_documents counters and the run's result
    counts, response,
    \* record of the run: batches whose remote call raised, upsert batches
    \* attempted, the index entries when upsert_documents was entered
    embFail, upFail, upAttempts, entriesBefore,
    \* RAGPipeline.ask: arguments, position, retrieved_docs, the generation
    \* calls made, the value returned
    query, include_sources, apc, retrieved_docs, genCalls, askResponse,
    \* the top_k of the /ask request, and the top_k of each index.query call
    top_k, indexQueries

chunkVars == <<text, chunk_size, overlap, start, chunks, iters, cpc, windows>>
procVars == <<documents, processed_chunks, ppc>>
storeVars == <<remoteStatus, remoteEntries, index, vpc, stats>>
ingVars ==
    <<variant, request, ipc, file, corpus, embeddings, ei, ui, counts, response,
      embFail, upFail, upAttempts, entriesBefore>>
askVars ==
    <<query, include_sources, apc, retrieved_docs, genCalls, askResponse,
      top_k, indexQueries>>
vars == <<chunkVars, procVars, storeVars, ingVars, askVars>>

(***************************************************************************)
(* Bounds of the model.                                                    *)
(***************************************************************************)
\* longest text handed to chunk_text with explicit chunk_size/overlap
MaxLen == 6
\* largest explicit chunk_size
MaxChunkSize == 5
\* largest explicit overlap
MaxOverlap == 4
\* loop iterations of chunk_text followed before the model stops following
MaxIter == 8
\* documents in one process_documents call
MaxDocs == 2
\* PineconeVectorStore instances (one per process) using the same index name
NumStores == 3
\* documents in the largest corpus of an ingestion run
MaxCorpus == 201
\* entries in the largest index a question is put to
MaxIndexed == 6

(***************************************************************************)
(* Program constants.                                                      *)
(***************************************************************************)
CHUNK_SIZE == 1000
CHUNK_OVERLAP == 200
TOP_K_RESULTS == 5
\* create_embeddings: batch_size
EMBED_BATCH_SIZE == 100
\* create_embeddings: length of the fallback vector
FALLBACK_DIM == 1536
\* the index dimension: the length of a text-embedding-ada-002 vector
EMBEDDING_DIM == 1536
\* upsert_documents: default batch_size
UPSERT_BATCH_SIZE == 100
\* upsert_documents: metadata text cap
METADATA_TEXT_CAP == 1000
\* the store main.py and setup_pipeline.py ingest through
\* QuestionRequest.top_k: absent (None), and its least and greatest values
NoTopK == 0
TOP_K_MIN == 1
TOP_K_MAX == 20
IngestStore == 1
\* the store RAGPipeline owns
RagStore == 2

Min(a, b) == IF a < b THEN a ELSE b
Max(a, b) == IF a > b THEN a ELSE b

(***************************************************************************)
(* Characters.  Python's \s and str.strip() whitespace; \w word            *)
(* characters; the punctuation clean_text keeps; "@" and "#" stand for     *)
(* every character clean_text replaces.                                    *)
(***************************************************************************)
Whitespace == {" ", "\n", "\t"}
WordChars == {"a", "b", "_"}
KeptPunct == {".", ",", "!", "?", ";", ":", "-", "(", ")"}
Terminal == {".", "!", "?"}

IsSpace(c) == c \in Whitespace

(***************************************************************************)
(* Python sequence primitives.                                             *)
(***************************************************************************)
\* a slice index normalised against a length (negative counts from the end)
PyIndex(i, n) == IF i < 0 THEN Max(i + n, 0) ELSE Min(i, n)

\* s[a:b]
Slice(s, a, b) ==
    LET lo == PyIndex(a, Len(s))
        hi == PyIndex(b, Len(s))
    IN  IF lo >= hi THEN <<>> ELSE SubSeq(s, lo + 1, hi)

\* s.rfind(ch, a, b): highest 0-based index in [a, b) holding ch, or -1
RFind(s, ch, a, b) ==
    LET lo == PyIndex(a, Len(s))
        hi == PyIndex(b, Len(s))
        \* the window read backwards, each character with its 0-based index
        back == [k \in 1 .. Max(hi - lo, 0) |-> <<s[hi - k + 1], hi - k>>]
        hits == SelectSeq(back, LAMBDA p : p[1] = ch)
    IN  IF hits = <<>> THEN -1 ELSE hits[1][2]

\* s.strip()
Strip(s) ==
    LET at == [i \in 1 .. Len(s) |-> <<s[i], i>>]
        solid == SelectSeq(at, LAMBDA p : ~IsSpace(p[1]))
    IN  IF solid = <<>> THEN <<>>
        ELSE SubSeq(s, solid[1][2], solid[Len(solid)][2])

\* len(s.split()): the number of whitespace-separated words
WordCount(s) ==
    Cardinality({i \in 1 .. Len(s) :
        ~IsSpace(s[i]) /\ (i = 1 \/ IsSpace(s[i - 1]))})

(***************************************************************************)
(* chunk_text, one window: the body of the while loop.                     *)
(***************************************************************************)
\* a window cut one character past chunk_size
WindowEndLong(t, cs, st) == st + cs + 1
\* the window end after boundary snapping (lines 41-53)
WindowEnd(t, cs, st) ==
    LET end == st + cs
        sentence_end == RFind(t, ".", st, end)
        word_end == RFind(t, " ", st, end)
    IN  IF end < Len(t)
        THEN IF sentence_end > st + (cs \div 2) THEN sentence_end + 1
             ELSE IF word_end > st + (cs \div 2) THEN word_end
             ELSE end
        ELSE end

\* chunk = text[start:end].strip() (line 55)
WindowChunk(t, st, end) == Strip(Slice(t, st, end))

\* a next start that skips a character
NextStartGap(end, ov) == end - ov + 1
\* start = end - overlap (line 59)
NextStart(end, ov) == end - ov

\* chunks after one iteration (lines 55-57)
AppendChunk(cs, chunk) == IF chunk # <<>> THEN Append(cs, chunk) ELSE cs

(***************************************************************************)
(* chunk_text as a function, for callers that use its result.  Defined     *)
(* where the loop ends.                                                    *)
(***************************************************************************)
RECURSIVE ChunkLoop(_, _, _, _, _)
ChunkLoop(t, cs, ov, st, acc) ==
    LET end == WindowEnd(t, cs, st)
        acc2 == AppendChunk(acc, WindowChunk(t, st, end))
        st2 == NextStart(end, ov)
    IN  IF st2 >= Len(t) THEN acc2 ELSE ChunkLoop(t, cs, ov, st2, acc2)

ChunkText(t, cs, ov) ==
    IF Len(t) <= cs THEN <<t>> ELSE ChunkLoop(t, cs, ov, 0, <<>>)

(***************************************************************************)
(* clean_text.                                                             *)
(***************************************************************************)
\* re.sub(r'\s+', ' ', text)
CollapseWhitespace(t) ==
    LET pairs == [i \in 1 .. Len(t) |-> <<t[i], IF i = 1 THEN "" ELSE t[i - 1]>>]
        kept == SelectSeq(pairs, LAMBDA p : ~(IsSpace(p[1]) /\ IsSpace(p[2])))
    IN  [i \in 1 .. Len(kept) |-> IF IsSpace(kept[i][1]) THEN " " ELSE kept[i][1]]

\* re.sub(r'[^\w\s\.\,\!\?\;\:\-\(\)]', ' ', text)
ReplaceSpecial(t) ==
    [i \in 1 .. Len(t) |->
        IF t[i] \in WordChars \cup Whitespace \cup KeptPunct THEN t[i] ELSE " "]

\* re.sub(r'([.!?]){2,}', r'\1', text): a run keeps its last character
CollapsePunctuation(t) ==
    LET pairs == [i \in 1 .. Len(t) |->
                    <<t[i], IF i = Len(t) THEN "" ELSE t[i + 1]>>]
        kept == SelectSeq(pairs, LAMBDA p : ~(p[1] \in Terminal /\ p[2] \in Terminal))
    IN  [i \in 1 .. Len(kept) |-> kept[i][1]]

CleanText(t) == Strip(CollapsePunctuation(ReplaceSpecial(CollapseWhitespace(t))))

(***************************************************************************)
(* process_documents.                                                      *)
(***************************************************************************)
\* chunk objects numbered from 1
DocChunksOneBased(doc) ==
    IF doc.text = <<>> THEN <<>>
    ELSE LET cleaned == CleanText(doc.text)
             cs == ChunkText(cleaned, CHUNK_SIZE, CHUNK_OVERLAP)
         IN  [i \in 1 .. Len(cs) |->
                [id |-> <<doc.url, "#chunk_", i>>,
                 text |-> cs[i],
                 url |-> doc.url,
                 title |-> doc.title,
                 chunk_index |-> i,
                 total_chunks |-> Len(cs),
                 timestamp |-> doc.timestamp,
                 word_count |-> WordCount(cs[i])]]
\* the chunk objects of one document (lines 70-92)
DocChunks(doc) ==
    IF doc.text = <<>> THEN <<>>
    ELSE LET cleaned == CleanText(doc.text)
             cs == ChunkText(cleaned, CHUNK_SIZE, CHUNK_OVERLAP)
         IN  [i \in 1 .. Len(cs) |->
                [id |-> <<doc.url, "#chunk_", i - 1>>,
                 text |-> cs[i],
                 url |-> doc.url,
                 title |-> doc.title,
                 chunk_index |-> i - 1,
                 total_chunks |-> Len(cs),
                 timestamp |-> doc.timestamp,
                 word_count |-> WordCount(cs[i])]]

\* for doc in documents: the chunk objects of documents lo..hi, in order
\* (the range is halved so that long document lists stay shallow)
RECURSIVE ProcessRange(_, _, _)
ProcessRange(docs, lo, hi) ==
    IF lo > hi THEN <<>>
    ELSE IF lo = hi THEN DocChunks(docs[lo])
    ELSE LET mid == (lo + hi) \div 2
         IN  ProcessRange(docs, lo, mid) \o ProcessRange(docs, mid + 1, hi)

ProcessDocuments(docs) == ProcessRange(docs, 1, Len(docs))

(***************************************************************************)
(* The embedding service and create_embeddings.  A vector is recorded by   *)
(* its length and by the text it embeds; the fallback vector is all zeros. *)
(***************************************************************************)
\* the vector the service computes for one text
ServiceEmbedding(t) == [dim |-> EMBEDDING_DIM, zero |-> FALSE, of |-> t]

\* embeddings.create(input=batch_texts): one vector per text, in input order
ServiceResponse(batch_texts) ==
    [k \in 1 .. Len(batch_texts) |-> ServiceEmbedding(batch_texts[k])]

\* [0.0] * 1536
ZeroVector == [dim |-> FALLBACK_DIM, zero |-> TRUE, of |-> <<>>]

\* texts = [chunk['text'] for chunk in chunks] (line 114)
TextsOf(cs) == [i \in 1 .. Len(cs) |-> cs[i].text]

\* batch_texts = texts[i:i + batch_size] (line 121)
BatchTexts(texts, i) == Slice(texts, i, i + EMBED_BATCH_SIZE)

\* a fallback that forgets the size of the batch: one zero vector in all
EmbedFallbackShort(batch_texts) == <<ZeroVector>>
\* the except clause: one zero vector for every text of the batch (line 136)
EmbedFallback(batch_texts) == [k \in 1 .. Len(batch_texts) |-> ZeroVector]

\* a try statement whose except clause re-raises
TryEmbedBatchRaises(ok, batch_texts) ==
    IF ok THEN [raised |-> FALSE, vectors |-> ServiceResponse(batch_texts)]
    ELSE [raised |-> TRUE, vectors |-> <<>>]
\* the try statement of one batch (lines 124-136): what it adds to
\* embeddings, and whether an exception leaves it
TryEmbedBatch(ok, batch_texts) ==
    IF ok THEN [raised |-> FALSE, vectors |-> ServiceResponse(batch_texts)]
    ELSE [raised |-> FALSE, vectors |-> EmbedFallback(batch_texts)]

\* chunk['embedding'] = embedding
WithEmbedding(c, e) ==
    [id |-> c.id, text |-> c.text, url |-> c.url, title |-> c.title,
     chunk_index |-> c.chunk_index, total_chunks |-> c.total_chunks,
     timestamp |-> c.timestamp, word_count |-> c.word_count, embedding |-> e]

\* for chunk, embedding in zip(chunks, embeddings) (lines 139-143): the
\* chunks are updated in place and the same list is returned
ZipEmbeddings(cs, es) ==
    [i \in 1 .. Len(cs) |-> IF i <= Len(es) THEN WithEmbedding(cs[i], es[i]) ELSE cs[i]]

HasEmbedding(c) == "embedding" \in DOMAIN c

(***************************************************************************)
(* upsert_documents.                                                       *)
(***************************************************************************)
\* the vector prepared for one chunk (lines 73-84)
VectorOf(c) ==
    [id |-> c.id, values |-> c.embedding,
     metadata |-> [text |-> Slice(c.text, 0, METADATA_TEXT_CAP), url |-> c.url,
                   title |-> c.title, chunk_index |-> c.chunk_index,
                   total_chunks |-> c.total_chunks, word_count |-> c.word_count]]

VectorsOf(cs) == [i \in 1 .. Len(cs) |-> VectorOf(cs[i])]

\* a batch that drops its last vector
UpsertBatchShort(vectors, i, batch_size) == Slice(vectors, i, i + batch_size - 1)
\* batch = vectors[i:i + batch_size] (line 89)
UpsertBatch(vectors, i, batch_size) == Slice(vectors, i, i + batch_size)

\* the collaborator's upsert: insert, or replace the entry of the same id
UpsertApply(entries, batch) ==
    {e \in entries : \A k \in 1 .. Len(batch) : batch[k].id # e.id}
        \cup {batch[k] : k \in 1 .. Len(batch)}

\* a try statement whose except clause re-raises
TryUpsertBatchRaises(ok, entries, batch) ==
    IF ok THEN [raised |-> FALSE, entries |-> UpsertApply(entries, batch)]
    ELSE [raised |-> TRUE, entries |-> entries]
\* the try statement of one batch (lines 90-94): the index entries after
\* it, and whether an exception leaves it
TryUpsertBatch(ok, entries, batch) ==
    IF ok THEN [raised |-> FALSE, entries |-> UpsertApply(entries, batch)]
    ELSE [raised |-> FALSE, entries |-> entries]

\* the number of batches a loop over n items in steps of size makes
NumBatches(n, size) == (n + size - 1) \div size

(***************************************************************************)
(* search: the index query and the formatting of its matches.              *)
(***************************************************************************)
\* a match the collaborator returns for an entry
MatchOf(e, score) == [id |-> e.id, score |-> score, metadata |-> e.metadata]

\* lines 123-134
ResultOf(m) ==
    [id |-> m.id, score |-> m.score, text |-> m.metadata.text,
     url |-> m.metadata.url, title |-> m.metadata.title,
     chunk_index |-> m.metadata.chunk_index,
     total_chunks |-> m.metadata.total_chunks,
     word_count |-> m.metadata.word_count]

\* results collected in reverse
ResultsOfReversed(matches) ==
    [i \in 1 .. Len(matches) |-> ResultOf(matches[Len(matches) + 1 - i])]
\* lines 122-136: one result per match, appended in the order of the matches
ResultsOf(matches) == [i \in 1 .. Len(matches) |-> ResultOf(matches[i])]

(***************************************************************************)
(* RAGPipeline: format_context, generate_answer, ask.  Scores are in       *)
(* thousandths, so the three-decimal rendering keeps them.                 *)
(***************************************************************************)
\* line 25
NoContext == "No relevant context found."

\* a format_context without the sentinel
FormatContextBlocks(docs) ==
    [sentinel |-> "",
     parts |-> [i \in 1 .. Len(docs) |->
                   [n |-> i, score |-> docs[i].score, title |-> docs[i].title,
                    url |-> docs[i].url, content |-> docs[i].text]]]
\* lines 22-37: the sentinel, or the numbered blocks in the order given
FormatContext(docs) ==
    IF docs = <<>> THEN [sentinel |-> NoContext, parts |-> <<>>]
    ELSE [sentinel |-> "",
          parts |-> [i \in 1 .. Len(docs) |->
                        [n |-> i, score |-> docs[i].score, title |-> docs[i].title,
                         url |-> docs[i].url, content |-> docs[i].text]]]

\* line 82
Apology ==
    "I apologize, but I encountered an error while generating the answer. Please try again."

\* the text the generation service produces
Generated == "generated"

\* a generate_answer whose except clause returns nothing
TryGenerateEmpty(ok) == IF ok THEN Generated ELSE ""
\* the try statement of generate_answer (lines 67-82)
TryGenerate(ok) == IF ok THEN Generated ELSE Apology

\* line 110
Snippet(t) == IF Len(t) > 200 THEN Slice(t, 0, 200) \o <<".", ".", ".">> ELSE t

\* lines 106-111
SourceOf(doc) ==
    [title |-> doc.title, url |-> doc.url, relevance_score |-> doc.score,
     snippet |-> Snippet(doc.text)]

\* a response that always claims context
AskResponseWithContext(q, answer, docs, include) ==
    IF include
    THEN [query |-> q, answer |-> answer, context_used |-> TRUE,
          sources |-> [i \in 1 .. Len(docs) |-> SourceOf(docs[i])]]
    ELSE [query |-> q, answer |-> answer, context_used |-> TRUE]
\* lines 97-115
AskResponse(q, answer, docs, include) ==
    IF include
    THEN [query |-> q, answer |-> answer, context_used |-> Len(docs) > 0,
          sources |-> [i \in 1 .. Len(docs) |-> SourceOf(docs[i])]]
    ELSE [query |-> q, answer |-> answer, context_used |-> Len(docs) > 0]

(***************************************************************************)
(* Idle values: a specification holds the components it does not run at    *)
(* these.                                                                  *)
(***************************************************************************)
Stores == 1 .. NumStores

NoResponse == [success |-> FALSE, message |-> "none"]

\* get_index_stats has returned nothing yet
NoStats == [returned |-> FALSE]

ChunkIdle ==
    /\ text = <<>> /\ chunk_size = 0 /\ overlap = 0
    /\ start = 0 /\ chunks = <<>> /\ iters = 0 /\ cpc = "idle"
    /\ windows = <<>>

ProcIdle == documents = <<>> /\ processed_chunks = <<>> /\ ppc = "idle"

StoreIdle ==
    /\ remoteStatus = "absent" /\ remoteEntries = {}
    /\ index = [s \in Stores |-> FALSE]
    /\ vpc = [s \in Stores |-> "idle"]
    /\ stats = [s \in Stores |-> NoStats]

IngIdle ==
    /\ variant = "none" /\ request = [force_recrawl |-> FALSE, update_embeddings |-> FALSE]
    /\ ipc = "idle" /\ file = "missing" /\ corpus = <<>>
    /\ embeddings = <<>> /\ ei = 0 /\ ui = 0
    /\ counts = [documents_processed |-> 0, chunks_created |-> 0, embeddings_created |-> 0]
    /\ response = NoResponse
    /\ embFail = {} /\ upFail = {} /\ upAttempts = <<>> /\ entriesBefore = {}

AskIdle ==
    /\ query = "" /\ include_sources = FALSE /\ apc = "idle"
    /\ retrieved_docs = <<>> /\ genCalls = <<>> /\ askResponse = NoResponse
    /\ top_k = NoTopK /\ indexQueries = <<>>

(***************************************************************************)
(* SpecChunk: chunk_text called with explicit chunk_size and overlap, its  *)
(* while loop followed one iteration at a time.                            *)
(***************************************************************************)
Alphabet == {"a", " ", "."}
Texts == UNION {[1 .. n -> Alphabet] : n \in 0 .. MaxLen}

ChunkInit ==
    /\ text \in Texts
    /\ chunk_size \in 1 .. MaxChunkSize
    /\ overlap \in 0 .. MaxOverlap
    /\ start = 0 /\ chunks = <<>> /\ iters = 0 /\ windows = <<>>
    /\ cpc = "call"
    /\ ProcIdle /\ StoreIdle /\ IngIdle /\ AskIdle

\* lines 34-38: the short-text return, or entry to the loop
ChunkCall ==
    /\ cpc = "call"
    /\ IF Len(text) <= chunk_size
       THEN chunks' = <<text>> /\ cpc' = "return"
       ELSE chunks' = <<>> /\ cpc' = "loop"
    /\ start' = 0
    /\ UNCHANGED <<text, chunk_size, overlap, iters, windows>>
    /\ UNCHANGED <<procVars, storeVars, ingVars, askVars>>

\* lines 40-61: one pass of the while loop
ChunkIterate ==
    /\ cpc = "loop"
    /\ iters < MaxIter
    /\ IF start < Len(text)
       THEN LET end == WindowEnd(text, chunk_size, start)
            IN  /\ chunks' = AppendChunk(chunks, WindowChunk(text, start, end))
                /\ windows' = Append(windows, <<start, end>>)
                /\ start' = NextStart(end, overlap)
                /\ cpc' = IF start' >= Len(text) THEN "return" ELSE "loop"
       ELSE cpc' = "return" /\ UNCHANGED <<start, chunks, windows>>
    /\ iters' = iters + 1
    /\ UNCHANGED <<text, chunk_size, overlap, procVars, storeVars, ingVars, askVars>>

ChunkNext == ChunkCall \/ ChunkIterate

SpecChunk == ChunkInit /\ [][ChunkNext]_vars

\* the loop and the function agree wherever the loop returns
ChunkLoopAgrees ==
    cpc = "return" => chunks = ChunkText(text, chunk_size, overlap)

(***************************************************************************)
(* C4: for every text longer than chunk_size and every overlap with        *)
(* 0 <= overlap < chunk_size, every iteration of the chunk_text loop       *)
(* strictly increases the window start (so the loop terminates).           *)
(***************************************************************************)
C4_StartStrictlyIncreases ==
    [][(cpc = "loop" /\ overlap < chunk_size) => start' > start]_vars

(***************************************************************************)
(* C5: called on a text longer than chunk_size with overlap >= chunk_size, *)
(* chunk_text rejects the call or clamps the overlap: it never runs a      *)
(* window that fails to advance.                                           *)
(***************************************************************************)
C5_OverlapRejectedOrClamped ==
    [][(cpc = "loop" /\ overlap >= chunk_size) => start' > start]_vars

(***************************************************************************)
(* C11: for every text longer than chunk_size and every overlap for which  *)
(* chunk_text returns, every returned chunk has length at most chunk_size, *)
(* whichever cut rule applied.  The chunks collected so far satisfy it in  *)
(* every iteration, so the returned list does.                             *)
(***************************************************************************)
C11_ChunksAtMostChunkSize ==
    (cpc \in {"loop", "return"} /\ Len(text) > chunk_size) =>
        \A i \in 1 .. Len(chunks) : Len(chunks[i]) <= chunk_size

\* chunk_text returned several chunks of a text whose first window was cut
\* short at a sentence terminator past the midpoint, and whose list holds
\* a chunk of the full chunk_size as well
C11_Witness ==
    /\ cpc = "return" /\ Len(text) > chunk_size
    /\ RFind(text, ".", 0, chunk_size) > chunk_size \div 2
    /\ WindowEnd(text, chunk_size, 0) < chunk_size
    /\ Len(chunks) >= 2
    /\ \E i \in 1 .. Len(chunks) : Len(chunks[i]) = chunk_size

(***************************************************************************)
(* SpecProcess: process_documents under the configured CHUNK_SIZE and      *)
(* CHUNK_OVERLAP, on documents whose texts are built from a length and a   *)
(* pattern.                                                                *)
(***************************************************************************)
MakeText(n, kind) ==
    [i \in 1 .. n |->
        CASE kind = "plain" -> "a"
          [] kind = "words" -> IF i % 6 = 0 THEN " " ELSE "a"
          [] kind = "sentences" ->
                IF i % 14 = 13 THEN "." ELSE IF i % 14 = 0 THEN " " ELSE "b"
          [] kind = "blank" -> IF i % 2 = 0 THEN "\n" ELSE " "
          [] kind = "junk" -> "@"
          [] kind = "noisy" ->
                IF i % 5 = 1 THEN "a" ELSE IF i % 5 = 2 THEN "!"
                ELSE IF i % 5 = 3 THEN "?" ELSE IF i % 5 = 4 THEN "\t" ELSE "#"]

DocShapes ==
    {<<0, "plain">>, <<3, "blank">>, <<3, "junk">>, <<50, "plain">>,
     <<50, "noisy">>, <<1000, "plain">>, <<1001, "words">>,
     <<2500, "plain">>, <<2500, "sentences">>}

MakeDoc(i, shape) ==
    [url |-> i, title |-> "Untitled", timestamp |-> "",
     text |-> MakeText(shape[1], shape[2])]

DocLists ==
    UNION {{[i \in 1 .. n |-> MakeDoc(i, shapes[i])] : shapes \in [1 .. n -> DocShapes]}
           : n \in 0 .. MaxDocs}

ProcInit ==
    /\ documents \in DocLists
    /\ processed_chunks = <<>>
    /\ ppc = "call"
    /\ ChunkIdle /\ StoreIdle /\ IngIdle /\ AskIdle

\* lines 65-94
Process ==
    /\ ppc = "call"
    /\ processed_chunks' = ProcessDocuments(documents)
    /\ ppc' = "done"
    /\ UNCHANGED <<documents, chunkVars, storeVars, ingVars, askVars>>

ProcNext == Process

SpecProcess == ProcInit /\ [][ProcNext]_vars

\* the chunks process_documents emitted for the document with this url
ChunksOf(u) == SelectSeq(processed_chunks, LAMBDA c : c.url = u)

(***************************************************************************)
(* C9: a 50-character document and a 2500-character document (texts that   *)
(* clean_text leaves as they are) yield exactly 1 and exactly 3 chunks,    *)
(* each of at most 1000 characters: 4 chunks in total.                     *)
(***************************************************************************)
C9_FiftyAnd2500GiveFourChunks ==
    (/\ ppc = "done"
     /\ Len(documents) = 2
     /\ Len(documents[1].text) = 50 /\ CleanText(documents[1].text) = documents[1].text
     /\ Len(documents[2].text) = 2500 /\ CleanText(documents[2].text) = documents[2].text)
    => /\ Len(ChunksOf(1)) = 1
       /\ Len(ChunksOf(2)) = 3
       /\ Len(processed_chunks) = 4
       /\ \A i \in 1 .. Len(processed_chunks) : Len(processed_chunks[i].text) <= 1000

(***************************************************************************)
(* C10: every Chunk emitted by process_documents has a text that is        *)
(* non-empty, not whitespace-only, and at most chunk_size characters long. *)
(***************************************************************************)
C10_ChunksNonEmptyAndBounded ==
    ppc = "done" =>
        \A i \in 1 .. Len(processed_chunks) :
            /\ processed_chunks[i].text # <<>>
            /\ Strip(processed_chunks[i].text) # <<>>
            /\ Len(processed_chunks[i].text) <= CHUNK_SIZE

(***************************************************************************)
(* C20: for every document that process_documents chunks, the chunk_index  *)
(* values of its chunks are exactly 0..total_chunks-1 in emission order,   *)
(* total_chunks is the same on all of them and equals the number of chunks *)
(* emitted for the document, and each id is url + "#chunk_" + chunk_index. *)
(***************************************************************************)
C20_ChunkIndexContiguous ==
    ppc = "done" =>
        \A d \in 1 .. Len(documents) :
            LET cs == ChunksOf(documents[d].url)
            IN  \A i \in 1 .. Len(cs) :
                   /\ cs[i].chunk_index = i - 1
                   /\ cs[i].total_chunks = Len(cs)
                   /\ cs[i].id = <<documents[d].url, "#chunk_", cs[i].chunk_index>>

\* process_documents returned for two documents, one giving a single chunk
\* and one giving four
C20_Witness ==
    /\ ppc = "done"
    /\ Len(documents) = 2
    /\ Len(ChunksOf(1)) = 1
    /\ Len(ChunksOf(2)) = 4

(***************************************************************************)
(* PineconeVectorStore.create_index, one remote call at a time.  Every     *)
(* remote call may raise; the except clause of create_index re-raises.     *)
(***************************************************************************)
\* self.index_name in self.pc.list_indexes().names()
IndexListed == remoteStatus # "absent"

\* describe_index(index_name).status['ready']
IndexReady == remoteStatus = "ready"

\* line 22-25: the existence check; an existing index is reused at once
CICheck(s) ==
    /\ vpc[s] = "check"
    /\ \/ /\ IndexListed
          /\ index' = [index EXCEPT ![s] = TRUE]
          /\ vpc' = [vpc EXCEPT ![s] = "returned"]
       \/ /\ ~IndexListed
          /\ vpc' = [vpc EXCEPT ![s] = "create"]
          /\ UNCHANGED index
       \/ /\ vpc' = [vpc EXCEPT ![s] = "raised"]
          /\ UNCHANGED index
    /\ UNCHANGED <<stats, remoteStatus, remoteEntries, chunkVars, procVars, ingVars, askVars>>

\* lines 29-37: pc.create_index; the collaborator starts initializing a new
\* index, and answers a request for an existing name by accepting it
\* (idempotent creation) or by an error
CICreate(s) ==
    /\ vpc[s] = "create"
    /\ \/ /\ remoteStatus = "absent"
          /\ remoteStatus' = "initializing"
          /\ vpc' = [vpc EXCEPT ![s] = "poll"]
       \/ /\ remoteStatus # "absent"
          /\ vpc' = [vpc EXCEPT ![s] = "poll"]
          /\ UNCHANGED remoteStatus
       \/ /\ vpc' = [vpc EXCEPT ![s] = "raised"]
          /\ UNCHANGED remoteStatus
    /\ UNCHANGED <<stats, remoteEntries, index, chunkVars, procVars, ingVars, askVars>>

\* lines 40-44: the readiness poll; a poll that finds the index not ready
\* sleeps and polls again
CIPoll(s) ==
    /\ vpc[s] = "poll"
    /\ \/ /\ IndexReady
          /\ index' = [index EXCEPT ![s] = TRUE]
          /\ vpc' = [vpc EXCEPT ![s] = "returned"]
       \/ /\ vpc' = [vpc EXCEPT ![s] = "raised"]
          /\ UNCHANGED index
    /\ UNCHANGED <<stats, remoteStatus, remoteEntries, chunkVars, procVars, ingVars, askVars>>

\* the collaborator finishes initializing the index
RemoteBecomesReady ==
    /\ remoteStatus = "initializing"
    /\ remoteStatus' = "ready"
    /\ UNCHANGED <<stats, remoteEntries, index, vpc, chunkVars, procVars, ingVars, askVars>>

(***************************************************************************)
(* SpecIndex: processes, each with its own PineconeVectorStore, calling    *)
(* create_index for the same index name, again and again.                  *)
(***************************************************************************)
IndexInit ==
    /\ remoteStatus = "absent" /\ remoteEntries = {}
    /\ index = [s \in Stores |-> FALSE]
    /\ vpc = [s \in Stores |-> "idle"]
    /\ stats = [s \in Stores |-> NoStats]
    /\ ChunkIdle /\ ProcIdle /\ IngIdle /\ AskIdle

\* a caller invokes create_index()
IndexCall(s) ==
    /\ vpc[s] \in {"idle", "returned", "raised"}
    /\ vpc' = [vpc EXCEPT ![s] = "check"]
    /\ UNCHANGED <<stats, remoteStatus, remoteEntries, index, chunkVars, procVars, ingVars, askVars>>

IndexNext ==
    \/ \E s \in Stores : IndexCall(s)
    \/ \E s \in Stores : CICheck(s)
    \/ \E s \in Stores : CICreate(s)
    \/ \E s \in Stores : CIPoll(s)
    \/ RemoteBecomesReady

SpecIndex == IndexInit /\ [][IndexNext]_vars

(***************************************************************************)
(* C6: whenever create_index returns normally, the named index is ready at *)
(* the collaborator, whether it was just created or already existed.       *)
(***************************************************************************)
C6_ReturnsOnlyReadyIndex ==
    [][\A s \in Stores :
          (vpc[s] # "returned" /\ vpc'[s] = "returned") => remoteStatus' = "ready"]_vars

(***************************************************************************)
(* SpecIngest: one ingestion run, by the /ingest endpoint                  *)
(* (main.py ingest_documents) or by setup_pipeline.py, one remote call at  *)
(* a time.  The run loads the source file, chunks, embeds batch by batch,  *)
(* saves, calls create_index, and upserts batch by batch.                  *)
(***************************************************************************)
\* the text of the i-th corpus document: distinct for distinct i
RECURSIVE Bits(_)
Bits(i) ==
    IF i = 0 THEN <<>> ELSE <<IF i % 2 = 1 THEN "b" ELSE "a">> \o Bits(i \div 2)

CorpusDoc(i) == [url |-> i, title |-> "Untitled", timestamp |-> "", text |-> Bits(i)]

Corpus(n) == [i \in 1 .. n |-> CorpusDoc(i)]

CorpusSizes == {0, 1, EMBED_BATCH_SIZE, EMBED_BATCH_SIZE + 1, MaxCorpus}

\* entries an earlier run left in the index: an older version of the first
\* chunk of document 1, and a chunk of a document no longer in the corpus
OldEntries ==
    {[id |-> <<1, "#chunk_", 0>>, values |-> ServiceEmbedding(<<"a">>),
      metadata |-> [text |-> <<"a">>, url |-> 1, title |-> "Untitled",
                    chunk_index |-> 0, total_chunks |-> 1, word_count |-> 1]],
     [id |-> <<0, "#chunk_", 0>>, values |-> ServiceEmbedding(<<"a", "a">>),
      metadata |-> [text |-> <<"a", "a">>, url |-> 0, title |-> "Untitled",
                    chunk_index |-> 0, total_chunks |-> 1, word_count |-> 1]]}

\* load_documents (document_processor.py lines 14-25)
LoadDocuments(f, docs) == IF f = "valid" THEN docs ELSE <<>>

\* the IngestResponse of a completed run (main.py lines 201-208)
SuccessResponse(c) ==
    [success |-> TRUE, message |-> "Documents ingested successfully",
     documents_processed |-> c.documents_processed,
     chunks_created |-> c.chunks_created,
     embeddings_created |-> c.embeddings_created]

\* the IngestResponse of the except clause (main.py lines 210-219); for
\* setup_pipeline the message printed before sys.exit(1) (lines 84-87)
FailureResponse(e) ==
    [success |-> FALSE, message |-> e,
     documents_processed |-> 0, chunks_created |-> 0, embeddings_created |-> 0]

IngInit ==
    /\ variant \in {"ingest", "setup"}
    /\ request \in [force_recrawl : BOOLEAN, update_embeddings : BOOLEAN]
    /\ variant = "setup" => request = [force_recrawl |-> FALSE, update_embeddings |-> TRUE]
    /\ file \in {"missing", "malformed", "valid"}
    /\ corpus \in {Corpus(n) : n \in CorpusSizes}
    /\ remoteStatus \in {"absent", "initializing", "ready"}
    /\ remoteEntries \in {{}, OldEntries}
    /\ remoteStatus # "ready" => remoteEntries = {}
    /\ index = [s \in Stores |-> FALSE]
    /\ vpc = [s \in Stores |-> "idle"]
    /\ stats = [s \in Stores |-> NoStats]
    /\ ipc = "start"
    /\ documents = <<>> /\ processed_chunks = <<>> /\ ppc = "idle"
    /\ embeddings = <<>> /\ ei = 0 /\ ui = 0
    /\ counts = [documents_processed |-> 0, chunks_created |-> 0, embeddings_created |-> 0]
    /\ response = NoResponse
    /\ embFail = {} /\ upFail = {} /\ upAttempts = <<>> /\ entriesBefore = {}
    /\ ChunkIdle /\ AskIdle

\* main.py lines 157-175, setup_pipeline.py lines 26-39: the crawl decision
\* and the crawl.  run_crawler raises, or returns with the spider having
\* written the file, or returns with the file as it was (the spider's closed
\* handler failed).  After a crawl the endpoint reads the file with json.load.
IngStart ==
    /\ ipc = "start"
    /\ LET should_crawl ==
               IF variant = "ingest" THEN request.force_recrawl \/ file = "missing"
               ELSE file = "missing"
       IN  IF should_crawl
           THEN \/ /\ ipc' = "done"
                   /\ response' = FailureResponse("run_crawler raised")
                   /\ UNCHANGED <<file, counts>>
                \/ \E written \in BOOLEAN :
                      /\ file' = IF written THEN "valid" ELSE file
                      /\ IF variant = "ingest" /\ file' = "malformed"
                         THEN /\ ipc' = "done"
                              /\ response' = FailureResponse("json.load raised")
                              /\ UNCHANGED counts
                         ELSE /\ ipc' = "load"
                              /\ counts' =
                                    IF variant = "ingest" /\ file' = "valid"
                                    THEN [counts EXCEPT !.documents_processed = Len(corpus)]
                                    ELSE counts
                              /\ UNCHANGED response
           ELSE /\ ipc' = "load"
                /\ UNCHANGED <<file, counts, response>>
    /\ UNCHANGED <<variant, request, corpus, embeddings, ei, ui,
                   embFail, upFail, upAttempts, entriesBefore>>
    /\ UNCHANGED <<chunkVars, procVars, storeVars, askVars>>

\* main.py lines 177-184, setup_pipeline.py lines 43-51: load_documents and
\* process_documents; the endpoint skips the whole branch when
\* update_embeddings is off or the file does not exist
IngLoad ==
    /\ ipc = "load"
    /\ IF variant = "ingest" /\ (~request.update_embeddings \/ file = "missing")
       THEN /\ ipc' = "done"
            /\ response' = SuccessResponse(counts)
            /\ UNCHANGED <<documents, processed_chunks, counts>>
       ELSE LET loaded == LoadDocuments(file, corpus)
                cs == ProcessDocuments(loaded)
            IN  /\ documents' = loaded
                /\ processed_chunks' = cs
                /\ counts' =
                      [counts EXCEPT
                          !.documents_processed =
                              IF variant = "setup" THEN Len(loaded) ELSE @,
                          !.chunks_created = Len(cs)]
                /\ ipc' = "embed"
                /\ UNCHANGED response
    /\ embeddings' = <<>> /\ ei' = 0
    /\ UNCHANGED <<variant, request, file, corpus, ui,
                   embFail, upFail, upAttempts, entriesBefore>>
    /\ UNCHANGED <<ppc, chunkVars, storeVars, askVars>>

\* create_embeddings, one pass of the batch loop (lines 120-136)
EmbedBatch ==
    /\ ipc = "embed"
    /\ ei < Len(processed_chunks)
    /\ \E ok \in BOOLEAN :
          LET batch_texts == BatchTexts(TextsOf(processed_chunks), ei)
              r == TryEmbedBatch(ok, batch_texts)
          IN  /\ embeddings' = embeddings \o r.vectors
              /\ embFail' = IF ok THEN embFail
                            ELSE embFail \cup {(ei \div EMBED_BATCH_SIZE) + 1}
              /\ ipc' = IF r.raised THEN "done" ELSE "embed"
              /\ response' = IF r.raised
                             THEN FailureResponse("embedding batch raised")
                             ELSE response
    /\ ei' = ei + EMBED_BATCH_SIZE
    /\ UNCHANGED <<variant, request, file, corpus, ui, counts,
                   upFail, upAttempts, entriesBefore>>
    /\ UNCHANGED <<chunkVars, procVars, storeVars, askVars>>

\* create_embeddings lines 138-143, then main.py lines 188-196 /
\* setup_pipeline.py lines 56-68: the embeddings are zipped onto the
\* chunks, counted, saved, and create_index is called
EmbedReturn ==
    /\ ipc = "embed"
    /\ ei >= Len(processed_chunks)
    /\ LET chunks_with_embeddings == ZipEmbeddings(processed_chunks, embeddings)
       IN  /\ processed_chunks' = chunks_with_embeddings
           /\ counts' = [counts EXCEPT
                            !.embeddings_created = Len(chunks_with_embeddings)]
    /\ embeddings' = <<>>
    /\ vpc' = [vpc EXCEPT ![IngestStore] = "check"]
    /\ ipc' = "index"
    /\ UNCHANGED <<variant, request, file, corpus, ei, ui, response,
                   embFail, upFail, upAttempts, entriesBefore>>
    /\ UNCHANGED <<stats, documents, ppc, remoteStatus, remoteEntries, index, chunkVars, askVars>>

\* create_index raised: the run ends in its except clause
IngIndexRaised ==
    /\ ipc = "index"
    /\ vpc[IngestStore] = "raised"
    /\ ipc' = "done"
    /\ response' = FailureResponse("create_index raised")
    /\ UNCHANGED <<variant, request, file, corpus, embeddings, ei, ui, counts,
                   embFail, upFail, upAttempts, entriesBefore>>
    /\ UNCHANGED <<chunkVars, procVars, storeVars, askVars>>

\* create_index returned: upsert_documents is entered and prepares its
\* vectors (vector_store.py lines 65-85); chunk['embedding'] raises KeyError
\* for a chunk without one
UpsertEnter ==
    /\ ipc = "index"
    /\ vpc[IngestStore] = "returned"
    /\ index[IngestStore]
    /\ IF \A i \in 1 .. Len(processed_chunks) : HasEmbedding(processed_chunks[i])
       THEN ipc' = "upsert" /\ UNCHANGED response
       ELSE ipc' = "done" /\ response' = FailureResponse("KeyError")
    /\ ui' = 0
    /\ upAttempts' = <<>>
    /\ entriesBefore' = remoteEntries
    /\ UNCHANGED <<variant, request, file, corpus, embeddings, ei, counts,
                   embFail, upFail>>
    /\ UNCHANGED <<chunkVars, procVars, storeVars, askVars>>

\* upsert_documents, one pass of the batch loop (lines 88-94); the
\* collaborator accepts a write only once the index is ready
UpsertStep ==
    /\ ipc = "upsert"
    /\ ui < Len(processed_chunks)
    /\ \E ok \in BOOLEAN :
          /\ ok => remoteStatus = "ready"
          /\ LET batch == UpsertBatch(VectorsOf(processed_chunks), ui, UPSERT_BATCH_SIZE)
                 r == TryUpsertBatch(ok, remoteEntries, batch)
             IN  /\ remoteEntries' = r.entries
                 /\ upFail' = IF ok THEN upFail
                              ELSE upFail \cup {(ui \div UPSERT_BATCH_SIZE) + 1}
                 /\ ipc' = IF r.raised THEN "done" ELSE "upsert"
                 /\ response' = IF r.raised
                                THEN FailureResponse("upsert batch raised")
                                ELSE response
    /\ upAttempts' = Append(upAttempts, (ui \div UPSERT_BATCH_SIZE) + 1)
    /\ ui' = ui + UPSERT_BATCH_SIZE
    /\ UNCHANGED <<variant, request, file, corpus, embeddings, ei, counts,
                   embFail, entriesBefore>>
    /\ UNCHANGED <<stats, remoteStatus, index, vpc, chunkVars, procVars, askVars>>

\* upsert_documents returns (line 96); the run completes (main.py lines
\* 199-208, setup_pipeline.py lines 75-82)
UpsertReturn ==
    /\ ipc = "upsert"
    /\ ui >= Len(processed_chunks)
    /\ ipc' = "done"
    /\ response' = SuccessResponse(counts)
    /\ UNCHANGED <<variant, request, file, corpus, embeddings, ei, ui, counts,
                   embFail, upFail, upAttempts, entriesBefore>>
    /\ UNCHANGED <<chunkVars, procVars, storeVars, askVars>>

IngestNext ==
    \/ IngStart
    \/ IngLoad
    \/ EmbedBatch
    \/ EmbedReturn
    \/ CICheck(IngestStore)
    \/ CICreate(IngestStore)
    \/ CIPoll(IngestStore)
    \/ RemoteBecomesReady
    \/ IngIndexRaised
    \/ UpsertEnter
    \/ UpsertStep
    \/ UpsertReturn

SpecIngest == IngInit /\ [][IngestNext]_vars

\* the 1-based batch that the item at 1-based position j falls in
BatchOf(j, size) == ((j - 1) \div size) + 1

\* create_embeddings has returned in this run
Embedded == ipc \in {"index", "upsert"} \/ (ipc = "done" /\ vpc[IngestStore] # "idle")

\* upsert_documents has returned in this run
Upserted == ipc = "done" /\ response.success /\ vpc[IngestStore] = "returned"

\* faults of a run that are not the failure of an embedding or upsert batch
OtherFaults == {"run_crawler raised", "json.load raised", "create_index raised"}

(***************************************************************************)
(* FairIngest: create_embeddings and upsert_documents are sequential        *)
(* loops, so each executes its next statement whenever it has one.         *)
(***************************************************************************)
FairIngest ==
    /\ SpecIngest
    /\ WF_vars(EmbedBatch \/ EmbedReturn)
    /\ WF_vars(UpsertStep \/ UpsertReturn)

\* a run over: failed only through a fault that is not a batch failure,
\* and completed only after every embedding batch and every upsert batch
\* was attempted and create_index was called
RunOutcome ==
    /\ (ipc = "done" /\ ~response.success) => response.message \in OtherFaults
    /\ (ipc = "done" /\ response.success /\ processed_chunks # <<>>) =>
          /\ ei >= Len(processed_chunks)
          /\ vpc[IngestStore] = "returned"
          /\ Len(upAttempts) = NumBatches(Len(processed_chunks), UPSERT_BATCH_SIZE)

(***************************************************************************)
(* C2: an ingestion run in which any subset of the embedding batches and   *)
(* any subset of the upsert batches fail still completes: no batch failure *)
(* ends the run failed, create_embeddings always goes on to create_index,  *)
(* upsert_documents always goes on to the completed state, and a completed *)
(* run has attempted every batch of both steps.                            *)
(***************************************************************************)
C2_BatchFailuresNeverFailRun ==
    /\ []RunOutcome
    /\ (ipc = "embed") ~> (ipc = "index")
    /\ (ipc = "upsert") ~> (ipc = "done" /\ response.success)

\* a completed run whose first embedding batch and first upsert batch
\* failed and whose second batches succeeded
C2_Witness ==
    /\ ipc = "done" /\ response.success
    /\ 1 \in embFail /\ 2 \notin embFail
    /\ 1 \in upFail /\ 2 \notin upFail
    /\ Len(upAttempts) >= 2

(***************************************************************************)
(* C3: create_embeddings returns its n input chunks in input order, each   *)
(* with an embedding: the vector the service returned at the chunk's       *)
(* position in its batch when the batch succeeded, and a zero vector of    *)
(* dimension 1536 exactly when the batch failed.                           *)
(***************************************************************************)
C3_EmbeddingsAligned ==
    Embedded =>
        LET input == ProcessDocuments(documents)
            texts == TextsOf(input)
            expected(j) ==
                LET b == BatchOf(j, EMBED_BATCH_SIZE)
                    first == (b - 1) * EMBED_BATCH_SIZE
                    answer == ServiceResponse(Slice(texts, first, first + EMBED_BATCH_SIZE))
                IN  IF b \in embFail
                    THEN [dim |-> 1536, zero |-> TRUE, of |-> <<>>]
                    ELSE answer[j - first]
        IN  /\ Len(processed_chunks) = Len(input)
            /\ \A j \in 1 .. Len(input) :
                  /\ HasEmbedding(processed_chunks[j])
                  /\ processed_chunks[j] = WithEmbedding(input[j], expected(j))
                  /\ processed_chunks[j].embedding.zero <=>
                        BatchOf(j, EMBED_BATCH_SIZE) \in embFail

\* create_embeddings returned after a failed batch between two good ones
C3_Witness ==
    /\ Embedded
    /\ embFail = {2}
    /\ Len(processed_chunks) > 2 * EMBED_BATCH_SIZE

(***************************************************************************)
(* C7: upsert_documents attempts the consecutive batches of batch_size     *)
(* entries once each and in order; a failing batch is skipped without      *)
(* raising, and the index holds what it held before, with exactly the      *)
(* entries of the batches that succeeded written over it.                  *)
(***************************************************************************)
C7_UpsertBatchesIndependent ==
    (ipc = "upsert" \/ Upserted) =>
        LET vectors == VectorsOf(processed_chunks)
            n == Len(vectors)
            attempted == ui \div UPSERT_BATCH_SIZE
            written == {vectors[j] : j \in {k \in 1 .. n :
                            /\ BatchOf(k, UPSERT_BATCH_SIZE) <= attempted
                            /\ BatchOf(k, UPSERT_BATCH_SIZE) \notin upFail}}
            writtenIds == {e.id : e \in written}
        IN  /\ upAttempts = [b \in 1 .. attempted |-> b]
            /\ Upserted => attempted = NumBatches(n, UPSERT_BATCH_SIZE)
            /\ remoteEntries =
                  {e \in entriesBefore : e.id \notin writtenIds} \cup written

\* upsert_documents returned after three batches, the second of which
\* failed, on an index that held older entries
C7_Witness ==
    /\ Upserted
    /\ upAttempts = <<1, 2, 3>>
    /\ upFail = {2}
    /\ entriesBefore # {}

(***************************************************************************)
(* C8: after a run in which an embedding batch failed, the reported        *)
(* number of embeddings created is smaller than the number of chunks       *)
(* created by exactly the number of chunks in the failed batches.          *)
(***************************************************************************)
C8_CountsReflectShortfall ==
    (ipc = "done" /\ response.success) =>
        response.embeddings_created =
            response.chunks_created
              - Cardinality({j \in 1 .. Len(processed_chunks) :
                                BatchOf(j, EMBED_BATCH_SIZE) \in embFail})

(***************************************************************************)
(* SpecAsk: questions put to one RAGPipeline, one after another, against   *)
(* an index that is absent, initializing or ready.  ask calls              *)
(* retrieve_context, which calls search on the pipeline's own              *)
(* PineconeVectorStore; then format_context and generate_answer.           *)
(***************************************************************************)
Queries == {"q1", "q2"}

\* the i-th entry of the index; the first has a text of more than 200
\* characters
AskEntry(i) ==
    LET t == [k \in 1 .. (IF i = 1 THEN 201 ELSE i) |-> "a"]
    IN  [id |-> <<i, "#chunk_", 0>>, values |-> ServiceEmbedding(t),
         metadata |-> [text |-> t, url |-> i, title |-> "Untitled",
                       chunk_index |-> 0, total_chunks |-> 1, word_count |-> 1]]

IndexedSets == {{AskEntry(i) : i \in 1 .. n} : n \in {0, 1, TOP_K_RESULTS, MaxIndexed}}

\* the similarity, in thousandths, the collaborator computes for an entry;
\* an all-zero vector is similar to nothing and scores lowest
Score(q, e) ==
    IF e.values.zero THEN 0
    ELSE IF q = "q1" THEN 950 - 100 * e.metadata.url ELSE 50 + 100 * e.metadata.url

\* index.query(vector, top_k, include_metadata=True): the top_k entries by
\* descending score
Matches(q, entries, k) ==
    LET rank(e) == Cardinality({f \in entries : Score(q, f) > Score(q, e)}) + 1
        n == Min(k, Cardinality(entries))
    IN  [p \in 1 .. n |-> MatchOf(CHOOSE e \in entries : rank(e) = p,
                                  Score(q, CHOOSE e \in entries : rank(e) = p))]

AskInit ==
    /\ remoteStatus \in {"absent", "initializing", "ready"}
    /\ remoteEntries \in IndexedSets
    /\ remoteStatus # "ready" => remoteEntries = {}
    /\ index = [s \in Stores |-> FALSE]
    /\ vpc = [s \in Stores |-> "idle"]
    /\ stats = [s \in Stores |-> NoStats]
    /\ query = "" /\ include_sources = FALSE /\ apc = "idle"
    /\ retrieved_docs = <<>> /\ genCalls = <<>> /\ askResponse = NoResponse
    /\ top_k = NoTopK /\ indexQueries = <<>>
    /\ ChunkIdle /\ ProcIdle /\ IngIdle

\* the values a QuestionRequest admits for top_k (models.py line 9)
RequestTopKs == {NoTopK} \cup (TOP_K_MIN .. TOP_K_MAX)

\* retrieve_context lines 16-17 and search lines 103-104: the default
DefaultTopK(k) == IF k = NoTopK THEN TOP_K_RESULTS ELSE k

\* the top_k ask hands to retrieve_context (rag_pipeline.py line 88): ask
\* has no top_k parameter and passes none
AskTopK(request_top_k) == NoTopK

\* an /ask request arrives and ask_question calls
\* rag_pipeline.ask(query, include_sources) (main.py lines 120-123)
AskCall ==
    /\ apc \in {"idle", "returned", "raised"}
    /\ query' \in Queries
    /\ include_sources' \in BOOLEAN
    /\ top_k' \in RequestTopKs
    /\ apc' = "search"
    /\ retrieved_docs' = <<>> /\ genCalls' = <<>> /\ askResponse' = NoResponse
    /\ indexQueries' = <<>>
    /\ UNCHANGED <<chunkVars, procVars, storeVars, ingVars>>

\* search lines 100-101 and connect_to_index (lines 50-61): with no index
\* handle yet, connect; list_indexes raises, or the name is not listed and
\* ValueError is raised, and connect_to_index re-raises either
AskConnect ==
    /\ apc = "search"
    /\ ~index[RagStore]
    /\ \/ /\ apc' = "raised"
          /\ UNCHANGED index
       \/ /\ ~IndexListed
          /\ apc' = "raised"
          /\ UNCHANGED index
       \/ /\ IndexListed
          /\ index' = [index EXCEPT ![RagStore] = TRUE]
          /\ UNCHANGED apc
    /\ UNCHANGED <<query, include_sources, retrieved_docs, genCalls, askResponse,
                   top_k, indexQueries>>
    /\ UNCHANGED <<stats, remoteStatus, remoteEntries, vpc, chunkVars, procVars, ingVars>>

\* search lines 106-140: the query embedding, the index query and the
\* formatting of the matches, all inside the try; a failure of either
\* remote call gives []
AskQuery ==
    /\ apc = "search"
    /\ index[RagStore]
    /\ \E embedOk, queryOk \in BOOLEAN :
          LET k == DefaultTopK(DefaultTopK(AskTopK(top_k)))
          IN  /\ queryOk => remoteStatus = "ready"
              /\ retrieved_docs' =
                    IF embedOk /\ queryOk
                    THEN ResultsOf(Matches(query, remoteEntries, k))
                    ELSE <<>>
              /\ indexQueries' =
                    IF embedOk THEN Append(indexQueries, k) ELSE indexQueries
    /\ apc' = "generate"
    /\ UNCHANGED <<query, include_sources, genCalls, askResponse, top_k>>
    /\ UNCHANGED <<chunkVars, procVars, storeVars, ingVars>>

\* ask lines 91-115: format_context, generate_answer, the response
AskAnswer ==
    /\ apc = "generate"
    /\ \E ok \in BOOLEAN :
          LET context == FormatContext(retrieved_docs)
              answer == TryGenerate(ok)
          IN  /\ genCalls' = Append(genCalls, [query |-> query, context |-> context,
                                                raised |-> ~ok])
              /\ askResponse' = AskResponse(query, answer, retrieved_docs, include_sources)
    /\ apc' = "returned"
    /\ UNCHANGED <<query, include_sources, retrieved_docs, top_k, indexQueries>>
    /\ UNCHANGED <<chunkVars, procVars, storeVars, ingVars>>

AskNext ==
    \/ AskCall
    \/ AskConnect
    \/ AskQuery
    \/ AskAnswer
    \/ RemoteBecomesReady

SpecAsk == AskInit /\ [][AskNext]_vars

\* a returned response carries the query, an answer, and context_used set
\* exactly when documents were retrieved; sources only when asked for
AskReturnsShape ==
    apc = "returned" =>
        /\ askResponse.query = query
        /\ askResponse.answer \in {Generated, Apology}
        /\ askResponse.context_used = (retrieved_docs # <<>>)
        /\ ("sources" \in DOMAIN askResponse) = include_sources
        /\ Len(retrieved_docs) <= TOP_K_RESULTS

(***************************************************************************)
(* C1: ask returns a response object (query, answer, context_used) for     *)
(* every combination of collaborator outcomes, the index missing or        *)
(* unreachable at connect time included, and never lets an exception       *)
(* escape to its caller.                                                   *)
(***************************************************************************)
C1_AskAlwaysReturnsResponse ==
    /\ apc # "raised"
    /\ AskReturnsShape

(***************************************************************************)
(* C12: for an /ask request carrying top_k = k (1 <= k <= 20), retrieval   *)
(* queries the index with top_k = k, so the response has at most k         *)
(* sources; only when top_k is absent is the default of 5 used.            *)
(***************************************************************************)
C12_RequestTopKHonoured ==
    apc = "returned" =>
        /\ \A i \in 1 .. Len(indexQueries) : indexQueries[i] = DefaultTopK(top_k)
        /\ Len(retrieved_docs) <= DefaultTopK(top_k)
        /\ include_sources => Len(askResponse.sources) <= DefaultTopK(top_k)

(***************************************************************************)
(* SpecStats: processes, each with its own PineconeVectorStore, calling    *)
(* get_index_stats (the health check of main.py, setup_pipeline.py) and    *)
(* delete_index, against an index that another party may have created.     *)
(***************************************************************************)
\* describe_index_stats() of the collaborator
IndexStats(entries) == [returned |-> TRUE, none |-> FALSE,
                        total_vector_count |-> Cardinality(entries)]

\* return None (line 163)
StatsNone == [returned |-> TRUE, none |-> TRUE]

StatsInit ==
    /\ remoteStatus \in {"absent", "initializing", "ready"}
    /\ remoteEntries \in {{}, OldEntries}
    /\ remoteStatus # "ready" => remoteEntries = {}
    /\ index = [s \in Stores |-> FALSE]
    /\ vpc = [s \in Stores |-> "idle"]
    /\ stats = [s \in Stores |-> NoStats]
    /\ ChunkIdle /\ ProcIdle /\ IngIdle /\ AskIdle

\* a caller invokes get_index_stats()
StatsCall(s) ==
    /\ vpc[s] \in {"idle", "returned", "raised"}
    /\ vpc' = [vpc EXCEPT ![s] = "stats"]
    /\ stats' = [stats EXCEPT ![s] = NoStats]
    /\ UNCHANGED <<remoteStatus, remoteEntries, index, chunkVars, procVars, ingVars, askVars>>

\* lines 155-156 and connect_to_index (lines 50-61): with no index handle
\* yet, connect; list_indexes raises, or the name is not listed and
\* ValueError is raised, and connect_to_index re-raises either
StatsConnect(s) ==
    /\ vpc[s] = "stats"
    /\ ~index[s]
    /\ \/ /\ vpc' = [vpc EXCEPT ![s] = "raised"]
          /\ UNCHANGED index
       \/ /\ ~IndexListed
          /\ vpc' = [vpc EXCEPT ![s] = "raised"]
          /\ UNCHANGED index
       \/ /\ IndexListed
          /\ index' = [index EXCEPT ![s] = TRUE]
          /\ UNCHANGED vpc
    /\ UNCHANGED <<stats, remoteStatus, remoteEntries, chunkVars, procVars, ingVars, askVars>>

\* lines 158-163: describe_index_stats inside the try; the collaborator
\* answers only for a ready index
StatsDescribe(s) ==
    /\ vpc[s] = "stats"
    /\ index[s]
    /\ \E ok \in BOOLEAN :
          /\ ok => remoteStatus = "ready"
          /\ stats' = [stats EXCEPT ![s] =
                          IF ok THEN IndexStats(remoteEntries) ELSE StatsNone]
    /\ vpc' = [vpc EXCEPT ![s] = "returned"]
    /\ UNCHANGED <<remoteStatus, remoteEntries, index, chunkVars, procVars, ingVars, askVars>>

\* delete_index (lines 142-151): deletes a listed index; every failure is
\* printed and swallowed
DeleteIndex(s) ==
    /\ vpc[s] \in {"idle", "returned", "raised"}
    /\ \/ /\ IndexListed
          /\ remoteStatus' = "absent" /\ remoteEntries' = {}
       \/ UNCHANGED <<remoteStatus, remoteEntries>>
    /\ UNCHANGED <<index, vpc, stats, chunkVars, procVars, ingVars, askVars>>

\* another party creates the index
RemoteCreated ==
    /\ remoteStatus = "absent"
    /\ remoteStatus' = "initializing"
    /\ UNCHANGED <<remoteEntries, index, vpc, stats, chunkVars, procVars, ingVars, askVars>>

StatsNext ==
    \/ \E s \in Stores : StatsCall(s)
    \/ \E s \in Stores : StatsConnect(s)
    \/ \E s \in Stores : StatsDescribe(s)
    \/ \E s \in Stores : DeleteIndex(s)
    \/ RemoteCreated
    \/ RemoteBecomesReady

SpecStats == StatsInit /\ [][StatsNext]_vars

\* what get_index_stats returns is the collaborator's answer or None
StatsReturnShape ==
    \A s \in Stores :
        (vpc[s] = "returned") =>
            stats[s] \in {StatsNone} \cup {IndexStats(e) : e \in {{}, OldEntries}}

(***************************************************************************)
(* C13: get_index_stats never raises to its caller: for every failure of   *)
(* the collaborator, the index not existing or the index listing failing   *)
(* when no handle is connected yet included, it returns None.              *)
(***************************************************************************)
C13_StatsNeverRaises ==
    \A s \in Stores : vpc[s] # "raised"

(***************************************************************************)
(* SpecService: the API process of main.py.  An ingestion run of the       *)
(* /ingest endpoint (or of setup_pipeline.py) on a small corpus, and once  *)
(* it has ended, /ask requests without top_k served by the RAGPipeline     *)
(* against the same index.                                                 *)
(***************************************************************************)
ServiceInit ==
    /\ IngInit
    /\ Len(corpus) <= 1

ServiceNext ==
    \/ IngStart
    \/ IngLoad
    \/ EmbedBatch
    \/ EmbedReturn
    \/ CICheck(IngestStore)
    \/ CICreate(IngestStore)
    \/ CIPoll(IngestStore)
    \/ RemoteBecomesReady
    \/ IngIndexRaised
    \/ UpsertEnter
    \/ UpsertStep
    \/ UpsertReturn
    \/ ipc = "done" /\ AskCall /\ top_k' = NoTopK
    \/ ipc = "done" /\ AskConnect
    \/ ipc = "done" /\ AskQuery
    \/ ipc = "done" /\ AskAnswer

SpecService == ServiceInit /\ [][ServiceNext]_vars

\* the index entries stored with the zero-vector fallback
ZeroEntries == {e \in remoteEntries : e.values.zero}

(***************************************************************************)
(* C14: a chunk whose stored embedding is the zero-vector fallback of a    *)
(* failed embedding batch is inert at search time: after ingestion it is   *)
(* never among the results of search/ask, for any query.                   *)
(***************************************************************************)
C14_ZeroVectorsInert ==
    \A i \in 1 .. Len(retrieved_docs) :
        \A e \in ZeroEntries : retrieved_docs[i].id # e.id

(***************************************************************************)
(* C15: on every ingestion path (the /ingest endpoint with and without     *)
(* recrawl, and setup_pipeline) a source file that is missing or holds     *)
(* malformed JSON is treated as zero documents: unless the crawl or        *)
(* create_index raises, the run completes with zero chunks and zero        *)
(* embeddings rather than ending failed.                                   *)
(***************************************************************************)
C15_BadSourceIsZeroDocuments ==
    (/\ ipc = "done"
     /\ file \in {"missing", "malformed"}
     /\ response.message \notin {"run_crawler raised", "create_index raised"}) =>
        /\ response.success
        /\ response.chunks_created = 0
        /\ response.embeddings_created = 0

(***************************************************************************)
(* C16: every completed ingest run reports documents_processed equal to    *)
(* the number of documents it loaded from the source file and passed to    *)
(* the chunker, whether or not the run re-crawled.                         *)
(***************************************************************************)
C16_DocumentsProcessedIsLoaded ==
    (ipc = "done" /\ response.success /\ request.update_embeddings) =>
        response.documents_processed = Len(documents)

(***************************************************************************)
(* C17: whenever the text-generation call raises, generate_answer returns  *)
(* the fixed apology string instead of propagating, and ask returns        *)
(* normally with that string as the answer, while context_used and sources *)
(* are determined by the retrieval result of that request alone.           *)
(***************************************************************************)
C17_GenerationFailureGivesApology ==
    \A g \in 1 .. Len(genCalls) :
        genCalls[g].raised =>
            /\ apc = "returned"
            /\ askResponse.query = query
            /\ askResponse.answer = Apology
            /\ askResponse.context_used = (Len(retrieved_docs) > 0)
            /\ include_sources =>
                  askResponse.sources =
                      [i \in 1 .. Len(retrieved_docs) |-> SourceOf(retrieved_docs[i])]

\* ask returned after a failed generation call, with retrieved documents
\* and sources asked for
C17_Witness ==
    /\ apc = "returned"
    /\ Len(genCalls) = 1 /\ genCalls[1].raised
    /\ retrieved_docs # <<>>
    /\ include_sources

(***************************************************************************)
(* C18: when the index exists but holds no entries, search returns an      *)
(* empty list, format_context returns the sentinel "No relevant context    *)
(* found.", generation is still invoked once with that sentinel as         *)
(* context, and ask returns a non-empty answer with context_used = false.  *)
(***************************************************************************)
C18_EmptyIndexGivesSentinel ==
    (apc = "returned" /\ remoteEntries = {}) =>
        /\ retrieved_docs = <<>>
        /\ Len(genCalls) = 1
        /\ genCalls[1].context = [sentinel |-> "No relevant context found.", parts |-> <<>>]
        /\ genCalls[1].query = query
        /\ askResponse.answer # ""
        /\ askResponse.context_used = FALSE

\* ask returned from a ready index without entries, the index query and
\* the generation call having succeeded
C18_Witness ==
    /\ apc = "returned" /\ remoteEntries = {} /\ remoteStatus = "ready"
    /\ indexQueries # <<>>
    /\ Len(genCalls) = 1 /\ ~genCalls[1].raised

(***************************************************************************)
(* C19: for every ask the order of the matches of the index query is kept  *)
(* end to end: search returns one result per match in the same order, the  *)
(* i-th numbered block of the context is the i-th match, and the i-th      *)
(* entry of sources is the i-th match; nothing is re-ranked, dropped or    *)
(* duplicated.                                                             *)
(***************************************************************************)
C19_MatchOrderPreserved ==
    (apc \in {"generate", "returned"} /\ retrieved_docs # <<>>) =>
        LET matches == Matches(query, remoteEntries, indexQueries[1])
        IN  /\ Len(retrieved_docs) = Len(matches)
            /\ \A i \in 1 .. Len(matches) :
                  /\ retrieved_docs[i].id = matches[i].id
                  /\ retrieved_docs[i].score = matches[i].score
                  /\ retrieved_docs[i].text = matches[i].metadata.text
            /\ apc = "returned" =>
                  /\ Len(genCalls[1].context.parts) = Len(matches)
                  /\ \A i \in 1 .. Len(matches) :
                        LET part == genCalls[1].context.parts[i]
                        IN  /\ part.n = i
                            /\ part.score = matches[i].score
                            /\ part.url = matches[i].metadata.url
                            /\ part.content = matches[i].metadata.text
                  /\ include_sources =>
                        /\ Len(askResponse.sources) = Len(matches)
                        /\ \A i \in 1 .. Len(matches) :
                              /\ askResponse.sources[i].url = matches[i].metadata.url
                              /\ askResponse.sources[i].relevance_score = matches[i].score

\* ask returned five sources for a query whose ranking is not the order of
\* the entries' urls
C19_Witness ==
    /\ apc = "returned" /\ include_sources
    /\ Len(retrieved_docs) = TOP_K_RESULTS
    /\ retrieved_docs[1].url > retrieved_docs[2].url
    /\ Cardinality(remoteEntries) > TOP_K_RESULTS

(***************************************************************************)
(* SpecRace: callers, each with its own PineconeVectorStore, each calling  *)
(* create_index once for the same index name, absent at first, their       *)
(* remote calls interleaved in every order.                                *)
(***************************************************************************)
\* a caller's one invocation of create_index()
RaceCall(s) ==
    /\ vpc[s] = "idle"
    /\ IndexCall(s)

RaceNext ==
    \/ \E s \in Stores : RaceCall(s)
    \/ \E s \in Stores : CICheck(s)
    \/ \E s \in Stores : CICreate(s)
    \/ \E s \in Stores : CIPoll(s)
    \/ RemoteBecomesReady

SpecRace == IndexInit /\ [][RaceNext]_vars

(***************************************************************************)
(* C21: with idempotent index creation at the collaborator and no remote   *)
(* call raising, every interleaving of two callers running create_index    *)
(* for the same initially absent name has each caller return with a handle *)
(* to an index that was ready when it returned (the index, once ready,     *)
(* stays ready), one index of that name existing.                          *)
(***************************************************************************)
C21_ConcurrentCreateReturnsReady ==
    (/\ \A s \in Stores : vpc[s] # "raised"
     /\ Cardinality({s \in Stores : vpc[s] # "idle"}) <= 2) =>
        \A s \in Stores :
            vpc[s] = "returned" => (index[s] /\ IndexListed /\ IndexReady)

(***************************************************************************)
(* C22: once the index handle is connected, a failure of the               *)
(* query-embedding call or of the index query inside search gives an empty *)
(* result list, and ask then produces exactly the response of a genuine    *)
(* zero-match query: sentinel context, generation invoked once,            *)
(* context_used = false, empty sources.                                    *)
(***************************************************************************)
C22_RetrievalFailureLooksLikeNoMatch ==
    /\ (/\ apc \in {"generate", "returned"}
        /\ (indexQueries = <<>> \/ remoteStatus # "ready")) => retrieved_docs = <<>>
    /\ (apc = "returned" /\ retrieved_docs = <<>>) =>
          /\ Len(genCalls) = 1
          /\ genCalls[1].context = FormatContext(<<>>)
          /\ genCalls[1].context.sentinel = "No relevant context found."
          /\ askResponse.query = query
          /\ askResponse.answer \in {Generated, Apology}
          /\ askResponse.context_used = FALSE
          /\ include_sources => askResponse.sources = <<>>
          /\ DOMAIN askResponse =
                IF include_sources
                THEN {"query", "answer", "context_used", "sources"}
                ELSE {"query", "answer", "context_used"}

\* ask returned with nothing retrieved although the connected index is
\* ready and holds entries, the query embedding having succeeded: the index
\* query failed
C22_Witness ==
    /\ apc = "returned" /\ retrieved_docs = <<>>
    /\ index[RagStore] /\ remoteStatus = "ready" /\ remoteEntries # {}
    /\ indexQueries # <<>>
    /\ include_sources

(***************************************************************************)
(* Window coverage of chunk_text.                                          *)
(***************************************************************************)
\* the 1-based positions of text that the chunk of window w keeps:
\* text[start:end] without the whitespace at its two edges
Kept(w) ==
    LET lo == PyIndex(w[1], Len(text))
        hi == PyIndex(w[2], Len(text))
        solid == {p \in (lo + 1) .. hi : ~IsSpace(text[p])}
    IN  {p \in (lo + 1) .. hi : \E a, b \in solid : a <= p /\ p <= b}

\* the 1-based positions of text[start:end]
Inside(w) == (PyIndex(w[1], Len(text)) + 1) .. PyIndex(w[2], Len(text))

\* the text of the chunk of window w
KeptText(w) == [k \in 1 .. Cardinality(Kept(w)) |->
                   text[k + (CHOOSE p \in Kept(w) : \A q \in Kept(w) : p <= q) - 1]]

(***************************************************************************)
(* C23: for every text longer than chunk_size and every overlap with       *)
(* 0 <= overlap < chunk_size for which chunk_text returns, the windows     *)
(* [start, end) it cut cover the text with no gap: the first starts at 0,  *)
(* each later one starts exactly overlap characters before the previous    *)
(* one's end, the last reaches len(text), and the only characters of the   *)
(* text in no chunk are whitespace stripped from a window's edges.         *)
(***************************************************************************)
C23_WindowsCoverText ==
    (cpc = "return" /\ Len(text) > chunk_size /\ overlap < chunk_size) =>
        LET n == Len(windows)
            kept == SelectSeq(windows, LAMBDA w : Kept(w) # {})
        IN  /\ n >= 1
            /\ windows[1][1] = 0
            /\ \A i \in 1 .. (n - 1) :
                  /\ windows[i + 1][1] = windows[i][2] - overlap
                  /\ windows[i + 1][1] <= windows[i][2]
            /\ windows[n][2] >= Len(text)
            /\ chunks = [i \in 1 .. Len(kept) |-> KeptText(kept[i])]
            /\ \A p \in 1 .. Len(text) :
                  \/ \E i \in 1 .. n : p \in Kept(windows[i])
                  \/ /\ IsSpace(text[p])
                     /\ \E i \in 1 .. n : p \in Inside(windows[i]) \ Kept(windows[i])

\* chunk_text returned after three or more overlapping windows, one of
\* them cut at a sentence or word boundary, with a space of the text in no chunk
C23_Witness ==
    /\ cpc = "return" /\ Len(text) > chunk_size
    /\ 0 < overlap /\ overlap < chunk_size
    /\ Len(windows) >= 3
    /\ \E i \in 1 .. Len(windows) : windows[i][2] < windows[i][1] + chunk_size
    /\ \E p \in 1 .. Len(text) : \A i \in 1 .. Len(windows) : p \notin Kept(windows[i])

====
